---- MODULE Spec2Model ----
(***************************************************************************)
(* A model of BaseComponent (src/src/components/base/Base.js): one         *)
(* component instance bound to one key of the shared data object, the      *)
(* event hub it registers on, the DOM nodes it renders and the listeners   *)
(* it attaches, the debounced change timer, and the process-wide external  *)
(* library registry.                                                       *)
(***************************************************************************)
EXTENDS Integers, Sequences, FiniteSets, TLC

(***************************************************************************)
(* Bounds of the model.                                                    *)
(***************************************************************************)
MaxRows == 2
MaxNodes == 11
MaxListeners == 2
MaxDestroys == 2
MaxEmitted == 2
MaxRequires == 3
MaxReadies == 2
MaxLocalizes == 3
TickMs == 100

(* The wait of _debounce(this.onChange.bind(this), 200). *)
DebounceWait == 200

(***************************************************************************)
(* JavaScript values.  Every value is a record of the same shape: its type *)
(* t, the string form v of a primitive, and the elements a of an array.    *)
(* Absent stands for "the data object has no own property for the key".    *)
(***************************************************************************)
Str(x) == [t |-> "string", v |-> x, a |-> <<>>]
Num(x) == [t |-> "number", v |-> x, a |-> <<>>]
Bool(x) == [t |-> "boolean", v |-> x, a |-> <<>>]
Null == [t |-> "null", v |-> "null", a |-> <<>>]
Undefined == [t |-> "undefined", v |-> "undefined", a |-> <<>>]
Arr(xs) == [t |-> "array", v |-> "", a |-> xs]
Absent == [t |-> "absent", v |-> "", a |-> <<>>]

IsArray(x) == x.t = "array"
IsNullish(x) == x.t \in {"null", "undefined"}

(* !x of JavaScript. *)
Falsy(x) ==
  \/ IsNullish(x)
  \/ x.t = "string" /\ x.v = ""
  \/ x.t = "number" /\ x.v = "0"
  \/ x.t = "boolean" /\ x.v = "false"

(* Array.prototype.join(",") over primitives: null and undefined give "". *)
RECURSIVE Join(_)
Join(xs) ==
  IF Len(xs) = 0 THEN ""
  ELSE LET h == IF IsNullish(xs[1]) THEN "" ELSE xs[1].v
       IN IF Len(xs) = 1 THEN h ELSE h \o "," \o Join(Tail(xs))

(* ToString of JavaScript. *)
JsToString(x) == IF IsArray(x) THEN Join(x.a) ELSE x.v

(* The setter of HTMLInputElement.value: the DOM keeps a string; null is *)
(* the empty string, anything else its ToString.                          *)
DomValue(x) == IF x.t = "null" THEN "" ELSE JsToString(x)

(* x === y where y is a primitive or a freshly created array: arrays are *)
(* equal by reference only, so a fresh array equals nothing.              *)
StrictEquals(x, y) == ~IsArray(x) /\ ~IsArray(y) /\ x.t = y.t /\ x.v = y.v

(* value[i] of JavaScript, i counted from 1 here. *)
Index(x, i) == IF IsArray(x) /\ i <= Len(x.a) THEN x.a[i] ELSE Undefined

(* The number of callbacks of _each(collection): one per element of an    *)
(* array, one per character of a string, none for other primitives.       *)
EachCount(x) ==
  IF IsArray(x) THEN Len(x.a)
  ELSE IF x.t = "string" THEN Len(x.v) ELSE 0

(* x.length is undefined or 0, for a truthy x. *)
NoLength(x) ==
  IF IsArray(x) THEN Len(x.a) = 0
  ELSE IF x.t = "string" THEN Len(x.v) = 0 ELSE TRUE

(* Array.prototype.splice(index, 1) with index counted from 0; a negative *)
(* index counts from the end.                                             *)
Splice1(xs, index) ==
  LET start == IF index < 0 THEN (IF Len(xs) + index < 0 THEN 0 ELSE Len(xs) + index)
               ELSE index
  IN IF start >= Len(xs) THEN xs
     ELSE [i \in 1..(Len(xs) - 1) |-> IF i <= start THEN xs[i] ELSE xs[i + 1]]

(***************************************************************************)
(* State.                                                                  *)
(***************************************************************************)
VARIABLES
  component,       \* the descriptor (read-only configuration)
  options,         \* the options: events (a hub was supplied), readOnly
  data,            \* this.data[this.component.key], or Absent
  value,           \* this.value
  aliased,         \* this.value and data[key] are the same array object
  inputs,          \* this.inputs: the input nodes and what they display
  element,         \* this.element is set (build ran)
  tbody,           \* this.tbody is set
  cleared,         \* the content of the root node was removed (clear)
  nodes,           \* the nodes inside the root node or the table body
  disabled,        \* this._disabled
  pristine,        \* this.pristine
  eventHandlers,   \* this.eventHandlers: records of raw listeners
  domListeners,    \* the listeners attached to DOM nodes
  eventListeners,  \* this.eventListeners: records of hub listeners
  hub,             \* the event hub: registrations per (type, callback)
  offCalls,        \* per record of eventListeners: events.off calls made
  masks,           \* the input masks created, with their destroy() calls
  inputMask,       \* this.inputMask: index into masks, 0 for null
  timer,           \* the debounce timer behind triggerChange
  emitted,         \* the events emitted on the hub, in order
  raised,          \* the last call ended by throwing
  nextNode,        \* the next fresh DOM node
  destroys,        \* destroy() calls made
  last,            \* the last call made: a record for stating properties
  burst,           \* the updateValue calls since the last quiet gap, likewise
  timed,           \* time is observed: Tick runs and burst is kept
  externalLibraries, \* BaseComponent.externalLibraries: per name, the entry
  futures,         \* the promises created, each pending, resolved or rejected
  window,          \* the global properties and callbacks that are defined
  head,            \* the elements appended to the head of the document
  pollers,         \* the checkLibrary timeouts that are scheduled
  requests,        \* per name, the requireLibrary calls made: for properties
  readies,         \* the libraryReady calls made and the last one's result
  visible,         \* this._visible
  presentation,    \* the root node: "initial", "visible" or "hidden"
  error,           \* this.error
  errorElement,    \* this.errorElement: exists, attached, the text it shows
  classes,         \* the error classes on the root node
  validity,        \* per input node, the message given to its setCustomValidity
  effects,         \* of the last call: Validator.check calls, warnings, result
  i18next,         \* the localization service: initialized, init calls, state
  localizes        \* the promises the localize() calls returned, in order

lvars == <<externalLibraries, futures, window, head, pollers, requests, readies>>

gvars == <<i18next, localizes>>

ivars == <<data, value, aliased, inputs, element, tbody, cleared, nodes, disabled,
           pristine, eventHandlers, domListeners, eventListeners, hub, offCalls,
           masks, inputMask, timer, emitted, raised, nextNode, destroys,
           visible, presentation, error, errorElement, classes, validity, effects>>

(* The instance as one record, so that a method is an operator from the *)
(* state before to the state after; ret holds a method's return value.   *)
Self ==
  [data |-> data, value |-> value, aliased |-> aliased, inputs |-> inputs,
   element |-> element, tbody |-> tbody, cleared |-> cleared, nodes |-> nodes,
   disabled |-> disabled, pristine |-> pristine,
   eventHandlers |-> eventHandlers, domListeners |-> domListeners,
   eventListeners |-> eventListeners, hub |-> hub, offCalls |-> offCalls,
   masks |-> masks, inputMask |-> inputMask, timer |-> timer,
   emitted |-> emitted, raised |-> FALSE, nextNode |-> nextNode,
   destroys |-> destroys, ret |-> Undefined, trig |-> FALSE, upd |-> FALSE,
   visible |-> visible, presentation |-> presentation, error |-> error,
   errorElement |-> errorElement, classes |-> classes, validity |-> validity,
   checks |-> 0, warnings |-> 0, result |-> "none"]

Commit(s) ==
  /\ data' = s.data
  /\ value' = s.value
  /\ aliased' = (s.aliased /\ IsArray(s.value) /\ IsArray(s.data))
  /\ inputs' = s.inputs
  /\ element' = s.element
  /\ tbody' = s.tbody
  /\ cleared' = s.cleared
  /\ nodes' = s.nodes
  /\ disabled' = s.disabled
  /\ pristine' = s.pristine
  /\ eventHandlers' = s.eventHandlers
  /\ domListeners' = s.domListeners
  /\ eventListeners' = s.eventListeners
  /\ hub' = s.hub
  /\ offCalls' = s.offCalls
  /\ masks' = s.masks
  /\ inputMask' = s.inputMask
  /\ timer' = s.timer
  /\ emitted' = s.emitted
  /\ raised' = s.raised
  /\ nextNode' = s.nextNode
  /\ destroys' = s.destroys
  /\ visible' = s.visible
  /\ presentation' = s.presentation
  /\ error' = s.error
  /\ errorElement' = s.errorElement
  /\ classes' = s.classes
  /\ validity' = s.validity
  /\ effects' = [checks |-> s.checks, warnings |-> s.warnings, result |-> s.result]

(* this.errorElement = null *)
NoErrorElement == [exists |-> FALSE, attached |-> FALSE, text |-> ""]

(* this.data[this.component.key] as an expression. *)
DataGet(s) == IF s.data.t = "absent" THEN Undefined ELSE s.data
(* this.data.hasOwnProperty(this.component.key) *)
HasOwn(s) == s.data.t # "absent"

(* A TypeError or ReferenceError thrown out of the running method. *)
Throw(s) == [s EXCEPT !.raised = TRUE]

(***************************************************************************)
(* The methods of BaseComponent, each an operator on the instance record.  *)
(* A method that finds s.raised set does nothing: the exception is on its  *)
(* way out of the handler.                                                 *)
(***************************************************************************)

(* get defaultValue(): the value, or throws when the catch block of the *)
(* logic-tree path reads the undeclared name e (it caught err).          *)
defaultValue ==
  IF ~Falsy(component.defaultValue)
  THEN [val |-> component.defaultValue, throws |-> FALSE]
  ELSE CASE component.customDefaultValue = "none" -> [val |-> Str(""), throws |-> FALSE]
         [] component.customDefaultValue = "string" -> [val |-> Str("c"), throws |-> FALSE]
         [] component.customDefaultValue = "stringFail" -> [val |-> Null, throws |-> FALSE]
         [] component.customDefaultValue = "logic" -> [val |-> Str("c"), throws |-> FALSE]
         [] component.customDefaultValue = "logicFail" -> [val |-> Null, throws |-> TRUE]

(* A debounce that does not restart the wait on a call while waiting. *)
triggerChange_noRestart(s, noValidate) ==
  IF s.raised THEN s
  ELSE [s EXCEPT !.timer = [pending |-> TRUE,
                            elapsed |-> IF s.timer.pending THEN s.timer.elapsed ELSE 0,
                            noValidate |-> noValidate],
                 !.trig = TRUE]

(* A debounce that keeps the arguments of the first call of a wait. *)
triggerChange_firstArgs(s, noValidate) ==
  IF s.raised THEN s
  ELSE [s EXCEPT !.timer = [pending |-> TRUE, elapsed |-> 0,
                            noValidate |-> IF s.timer.pending THEN s.timer.noValidate
                                           ELSE noValidate],
                 !.trig = TRUE]

(* _debounce(onChange, 200): a call (re)starts the wait and keeps its *)
(* arguments; the trailing edge calls onChange with the last ones.     *)
triggerChange(s, noValidate) ==
  IF s.raised THEN s
  ELSE [s EXCEPT !.timer = [pending |-> TRUE, elapsed |-> 0, noValidate |-> noValidate],
                 !.trig = TRUE]

(* emit(event, data): this.events.emit; without a hub, a TypeError. *)
emit(s, event, val, validate) ==
  IF s.raised THEN s
  ELSE IF ~options.events THEN Throw(s)
  ELSE [s EXCEPT !.emitted = Append(@, [event |-> event, value |-> val, validate |-> validate])]

(* onChange that ends the pristine state whatever noValidate is. *)
onChange_always(s, noValidate) ==
  LET s1 == [s EXCEPT !.pristine = FALSE]
  IN IF options.events THEN emit(s1, "componentChange", s1.value, ~noValidate) ELSE s1

onChange(s, noValidate) ==
  LET s1 == IF ~noValidate THEN [s EXCEPT !.pristine = FALSE] ELSE s
  IN IF options.events THEN emit(s1, "componentChange", s1.value, ~noValidate) ELSE s1

getValueAt(s, index) == Str(s.inputs[index].value)

(* getValue that does not store what it read in this.value. *)
getValue_noCache(s) ==
  IF s.raised THEN s
  ELSE IF ~component.input THEN [s EXCEPT !.ret = Undefined]
  ELSE IF ~component.multiple /\ Len(s.inputs) > 0
  THEN [s EXCEPT !.ret = getValueAt(s, 1)]
  ELSE [s EXCEPT !.ret = Arr([i \in 1..Len(s.inputs) |-> getValueAt(s, i)])]

getValue(s) ==
  IF s.raised THEN s
  ELSE IF ~component.input THEN [s EXCEPT !.ret = Undefined]
  ELSE IF ~component.multiple /\ Len(s.inputs) > 0
  THEN [s EXCEPT !.value = getValueAt(s, 1), !.aliased = FALSE, !.ret = getValueAt(s, 1)]
  ELSE LET values == Arr([i \in 1..Len(s.inputs) |-> getValueAt(s, i)])
       IN [s EXCEPT !.value = values, !.aliased = FALSE, !.ret = values]

(* updateValue without the falsy guard: every change is notified. *)
updateValue_noGuard(s, noValidate) ==
  IF s.raised THEN s
  ELSE
    LET old == DataGet(s)
        g == getValue(s)
        s1 == [g EXCEPT !.data = g.ret, !.aliased = component.input /\ IsArray(g.ret),
                        !.upd = TRUE]
    IN IF StrictEquals(old, g.ret) THEN s1 ELSE triggerChange(s1, noValidate)

updateValue(s, noValidate) ==
  IF s.raised THEN s
  ELSE
    LET old == DataGet(s)
        falsey == Falsy(old) /\ old.t # "null" /\ old.t # "undefined"
        g == getValue(s)
        s1 == [g EXCEPT !.data = g.ret, !.aliased = component.input /\ IsArray(g.ret),
                        !.upd = TRUE]
        changed == ~StrictEquals(old, g.ret)
    IN IF ~changed THEN s1
       ELSE IF falsey
            THEN (IF ~Falsy(s1.data) THEN triggerChange(s1, noValidate) ELSE s1)
            ELSE triggerChange(s1, noValidate)

(* setValueAt without the replacement of null and undefined. *)
setValueAt_raw(s, index, val) ==
  IF s.raised THEN s
  ELSE [s EXCEPT !.inputs[index].value = DomValue(val)]

setValueAt(s, index, val) ==
  IF s.raised THEN s
  ELSE IF IsNullish(val) /\ defaultValue.throws THEN Throw(s)
  ELSE LET w == IF IsNullish(val) THEN defaultValue.val ELSE val
       IN [s EXCEPT !.inputs[index].value = DomValue(w)]

(* The loop of setValue handing every row the whole value. *)
RECURSIVE setValueLoop_whole(_, _, _)
setValueLoop_whole(s, val, i) ==
  IF i > Len(s.inputs) THEN s
  ELSE setValueLoop_whole(setValueAt(s, i, val), val, i + 1)

(* The loop of setValue leaving the rows beyond the end of a sequence alone. *)
RECURSIVE setValueLoop_bounded(_, _, _)
setValueLoop_bounded(s, val, i) ==
  IF i > Len(s.inputs) \/ (IsArray(val) /\ i > Len(val.a)) THEN s
  ELSE setValueLoop_bounded(setValueAt(s, i, IF IsArray(val) THEN Index(val, i) ELSE val), val, i + 1)

RECURSIVE setValueLoop(_, _, _)
setValueLoop(s, val, i) ==
  IF i > Len(s.inputs) THEN s
  ELSE setValueLoop(setValueAt(s, i, IF IsArray(val) THEN Index(val, i) ELSE val), val, i + 1)

(* sameRef: the argument is the array object held by the data object. *)
setValue(s, val, noUpdate, noValidate, sameRef) ==
  IF s.raised \/ ~component.input THEN s
  ELSE LET s1 == [s EXCEPT !.value = val, !.aliased = sameRef /\ IsArray(val)]
           s2 == setValueLoop(s1, val, 1)
       IN IF ~noUpdate THEN updateValue(s2, noValidate) ELSE s2

addEventListener(s, node, evt, func) ==
  IF s.raised THEN s
  ELSE [s EXCEPT !.eventHandlers = Append(@, [type |-> evt, func |-> func]),
                 !.domListeners = @ \cup {[node |-> node, type |-> evt, func |-> func]},
                 !.nodes = @ \cup {node}]

Func(kind, node, index) == [kind |-> kind, node |-> node, index |-> index]

setInputMask(s, node) ==
  IF s.raised \/ ~component.inputMask THEN s
  ELSE [s EXCEPT !.masks = Append(@, [node |-> node, destroyCalls |-> 0]),
                 !.inputMask = Len(s.masks) + 1]

(* addInput that never resets the values of the inputs (noSet). *)
addInput_noSet(s, node) ==
  IF s.raised THEN s
  ELSE LET s1 == [s EXCEPT !.inputs = Append(@, [node |-> node, value |-> "", disabled |-> FALSE])]
           s2 == addEventListener(s1, node, "change", Func("updateValue", node, 0))
       IN addEventListener(s2, node, "keypress", Func("submitButton", node, 0))

addInput(s, node) ==
  IF s.raised THEN s
  ELSE LET s1 == [s EXCEPT !.inputs = Append(@, [node |-> node, value |-> "", disabled |-> FALSE])]
           s2 == addEventListener(s1, node, "change", Func("updateValue", node, 0))
           s3 == addEventListener(s2, node, "keypress", Func("submitButton", node, 0))
       IN IF HasOwn(s3) THEN setValue(s3, DataGet(s3), TRUE, FALSE, TRUE) ELSE s3

createInput(s) ==
  IF s.raised THEN s
  ELSE LET node == s.nextNode
           s1 == [s EXCEPT !.nextNode = @ + 1]
       IN addInput(setInputMask(s1, node), node)

(* set disabled(disabled) *)
setDisabled(s, flag) ==
  IF s.raised THEN s
  ELSE [s EXCEPT !.disabled = flag,
                 !.inputs = [i \in 1..Len(s.inputs) |-> [s.inputs[i] EXCEPT !.disabled = flag]]]

removeButton(s, index) ==
  IF s.raised THEN s
  ELSE addEventListener([s EXCEPT !.nextNode = @ + 1], s.nextNode, "click",
                        Func("removeValue", s.nextNode, index))

addButton(s) ==
  IF s.raised THEN s
  ELSE addEventListener([s EXCEPT !.nextNode = @ + 1], s.nextNode, "click",
                        Func("addValue", s.nextNode, 0))

(* The _each of buildRows: callback number i (from 0) of n. *)
RECURSIVE buildRowsLoop(_, _, _)
buildRowsLoop(s, i, n) ==
  IF i >= n THEN s
  ELSE buildRowsLoop(removeButton(createInput(s), i), i + 1, n)

buildRows(s) ==
  IF s.raised \/ ~s.tbody THEN s
  ELSE LET s1 == [s EXCEPT !.inputs = <<>>, !.nodes = {}]
           s2 == buildRowsLoop(s1, 0, EachCount(DataGet(s1)))
           s3 == addButton(s2)
       IN IF options.readOnly \/ component.disabled THEN setDisabled(s3, TRUE) ELSE s3

(* A write into the array held by the data object: this.value sees it *)
(* when it is the same object.                                         *)
MutateData(s, xs) ==
  [s EXCEPT !.data = Arr(xs), !.value = IF s.aliased THEN Arr(xs) ELSE @]

addNewValue(s) ==
  IF s.raised THEN s
  ELSE LET s1 == IF Falsy(DataGet(s)) THEN [s EXCEPT !.data = Arr(<<>>), !.aliased = FALSE] ELSE s
           s2 == IF ~IsArray(s1.data) THEN [s1 EXCEPT !.data = Arr(<<s1.data>>), !.aliased = FALSE] ELSE s1
       IN IF defaultValue.throws THEN Throw(s2)
          ELSE MutateData(s2, Append(s2.data.a, defaultValue.val))

addValue(s) == buildRows(addNewValue(s))

(* removeValue that always removes the first element. *)
removeValue_first(s, index) ==
  IF s.raised THEN s
  ELSE IF HasOwn(s)
       THEN (IF IsArray(s.data) THEN buildRows(MutateData(s, Splice1(s.data.a, 0)))
             ELSE Throw(s))
       ELSE buildRows(s)

(* splice exists on arrays only: on any other own value, a TypeError. *)
removeValue(s, index) ==
  IF s.raised THEN s
  ELSE IF HasOwn(s)
       THEN (IF IsArray(s.data) THEN buildRows(MutateData(s, Splice1(s.data.a, index)))
             ELSE Throw(s))
       ELSE buildRows(s)

createWrapper(s) ==
  IF s.raised \/ ~component.multiple THEN s
  ELSE LET s1 == [s EXCEPT !.tbody = TRUE]
           s2 == IF Falsy(DataGet(s1)) \/ NoLength(DataGet(s1)) THEN addNewValue(s1) ELSE s1
       IN buildRows(s2)

(* build that does not apply the default value. *)
build_noDefault(s) ==
  LET s1 == [s EXCEPT !.element = TRUE, !.cleared = FALSE]
      s2 == IF component.multiple THEN createWrapper(s1) ELSE createInput(s1)
  IN IF options.readOnly \/ component.disabled THEN setDisabled(s2, TRUE) ELSE s2

build(s) ==
  LET s1 == [s EXCEPT !.element = TRUE, !.cleared = FALSE]
      s2 == IF component.multiple THEN createWrapper(s1) ELSE createInput(s1)
      s3 == IF options.readOnly \/ component.disabled THEN setDisabled(s2, TRUE) ELSE s2
  IN IF s3.raised THEN s3
     ELSE IF defaultValue.throws THEN Throw(s3)
     ELSE IF ~Falsy(defaultValue.val) THEN setValue(s3, defaultValue.val, FALSE, FALSE, FALSE)
     ELSE s3

HubType(event) == "formio." \o event

on(s, event, cb, internal) ==
  IF s.raised \/ ~options.events THEN s
  ELSE [s EXCEPT !.eventListeners = Append(@, [type |-> HubType(event), listener |-> cb, internal |-> internal]),
                 !.offCalls = Append(@, 0),
                 !.hub[<<HubType(event), cb>>] = @ + 1]

(* events.off(type, listener): removes one registration when there is one. *)
RECURSIVE offLoop(_, _, _)
offLoop(s, all, i) ==
  IF i > Len(s.eventListeners) THEN s
  ELSE LET l == s.eventListeners[i]
       IN IF all \/ l.internal
          THEN offLoop([s EXCEPT !.hub[<<l.type, l.listener>>] = IF @ > 0 THEN @ - 1 ELSE 0,
                                 !.offCalls[i] = @ + 1], all, i + 1)
          ELSE offLoop(s, all, i + 1)

(* The window object as a node, and handler.event: the records of *)
(* eventHandlers hold type and func, so the property is undefined. *)
Window == 0
HandlerEvent(h) == IF "event" \in DOMAIN h THEN h.event ELSE "undefined"

(* destroy that also cancels the pending debounced change. *)
destroy_cancels(s, all) ==
  IF s.raised THEN s
  ELSE [offLoop(s, all, 1) EXCEPT !.destroys = @ + 1,
                                  !.timer = [pending |-> FALSE, elapsed |-> 0, noValidate |-> FALSE]]

destroy(s, all) ==
  IF s.raised THEN s
  ELSE LET s1 == IF s.inputMask # 0 THEN [s EXCEPT !.masks[s.inputMask].destroyCalls = @ + 1] ELSE s
           s2 == offLoop(s1, all, 1)
           removed == {[node |-> Window, type |-> HandlerEvent(s2.eventHandlers[i]),
                        func |-> s2.eventHandlers[i].func] : i \in 1..Len(s2.eventHandlers)}
       IN [s2 EXCEPT !.domListeners = @ \ removed, !.destroys = @ + 1]

clear(s) ==
  LET s1 == destroy(s, FALSE)
  IN IF s1.raised THEN s1
     ELSE IF s1.element
          THEN [s1 EXCEPT !.cleared = TRUE, !.errorElement.attached = FALSE]
          ELSE s1

(* The expression of a descriptor, by what its evaluation does: none is   *)
(* no expression; string and logic evaluate; stringFail and logicFail throw *)
(* during the evaluation (eval, jsonLogic.apply).                           *)
Expressions == {"none", "string", "stringFail", "logic", "logicFail"}

Fails(expression) == expression \in {"stringFail", "logicFail"}

(* A read of this.defaultValue by the host. *)
readDefault(s) ==
  IF defaultValue.throws THEN Throw(s)
  ELSE [s EXCEPT !.ret = defaultValue.val,
                 !.result = IF defaultValue.val = Null THEN "null" ELSE "value",
                 !.warnings = IF Falsy(component.defaultValue)
                                   /\ component.customDefaultValue = "stringFail"
                              THEN @ + 1 ELSE @]

(* calculateValue(data); val is what the expression evaluates to.  The    *)
(* catch block of the string path warns; that of the logic-tree path reads *)
(* the undeclared name e (it caught err), a ReferenceError.                *)
calculateValue(s, val) ==
  CASE component.calculateValue = "none" -> s
    [] component.calculateValue = "string" ->
         LET r == setValue(s, val, FALSE, FALSE, FALSE)
         IN IF r.raised THEN [r EXCEPT !.raised = FALSE, !.warnings = @ + 1] ELSE r
    [] component.calculateValue = "stringFail" -> [s EXCEPT !.warnings = @ + 1]
    [] component.calculateValue = "logic" -> setValue(s, val, FALSE, FALSE, FALSE)
    [] component.calculateValue = "logicFail" -> Throw(s)

(* show(show) that does not look at the descriptor's hidden marker. *)
show_plain(s, flag) ==
  LET s1 == [s EXCEPT !.visible = flag, !.result = IF flag THEN "true" ELSE "false"]
  IN IF s1.element
     THEN [s1 EXCEPT !.presentation = IF flag THEN "visible" ELSE "hidden"]
     ELSE s1

(* show(show): the root node is this.getElement(), absent before build. *)
show(s, flag) ==
  LET s1 == [s EXCEPT !.visible = flag, !.result = IF flag THEN "true" ELSE "false"]
  IN IF s1.element
     THEN IF flag /\ ~component.hidden
          THEN [s1 EXCEPT !.presentation = "visible"]
          ELSE IF ~flag \/ component.hidden
               THEN [s1 EXCEPT !.presentation = "hidden"]
               ELSE s1
     ELSE s1

(* options.highlightErrors: the default the constructor merges in. *)
HighlightErrors == TRUE

(* this.error = {component, message} *)
ErrorOf(message) == [t |-> "object", v |-> message.v, a |-> <<>>]

(* this.errorContainer is set: createInput ran; it records a change *)
(* listener for every input it creates, and no record is ever removed. *)
ErrorContainer(s) ==
  \E i \in 1..Len(s.eventHandlers) : s.eventHandlers[i].func.kind = "updateValue"

(* removeClass(this.element, ...): a TypeError when there is no root node. *)
removeClass(s, className) ==
  IF s.raised THEN s
  ELSE IF ~s.element THEN Throw(s)
  ELSE [s EXCEPT !.classes = @ \ {className}]

addClass(s, className) ==
  IF s.raised THEN s
  ELSE IF ~s.element THEN Throw(s)
  ELSE [s EXCEPT !.classes = @ \cup {className}]

createErrorElement(s) ==
  IF s.raised \/ ~ErrorContainer(s) THEN s
  ELSE [s EXCEPT !.errorElement = [exists |-> TRUE, attached |-> ~s.cleared, text |-> ""]]

addInputError(s, message, dirty) ==
  IF s.raised \/ Falsy(message) THEN s
  ELSE LET s1 == IF s.errorElement.exists
                 THEN [s EXCEPT !.errorElement.text = @ \o message.v]
                 ELSE s
           s2 == addClass(s1, "has-error")
       IN IF dirty /\ HighlightErrors THEN addClass(s2, "alert alert-danger") ELSE s2

setCustomValidity(s, message, dirty) ==
  IF s.raised THEN s
  ELSE
    LET s1 == IF s.errorElement.exists /\ ErrorContainer(s)
              THEN [s EXCEPT !.errorElement = [exists |-> TRUE, attached |-> FALSE, text |-> ""]]
              ELSE s
        s2 == removeClass(s1, "has-error")
        s3 == IF HighlightErrors THEN removeClass(s2, "alert alert-danger") ELSE s2
        s4 == IF ~Falsy(message)
              THEN LET e1 == IF s3.raised THEN s3 ELSE [s3 EXCEPT !.error = ErrorOf(message)]
                       e2 == IF e1.raised THEN e1
                             ELSE IF ~options.events THEN Throw(e1)
                             ELSE emit(e1, "componentError", e1.error, FALSE)
                   IN addInputError(createErrorElement(e2), message, dirty)
              ELSE IF s3.raised THEN s3 ELSE [s3 EXCEPT !.error = Null]
    IN IF s4.raised THEN s4
       ELSE [s4 EXCEPT !.validity =
               {p \in @ : \A i \in 1..Len(s4.inputs) : p[1] # s4.inputs[i].node}
                 \cup {<<s4.inputs[i].node, DomValue(message)>> : i \in 1..Len(s4.inputs)}]

(* checkValidity that consults the validator while still pristine. *)
checkValidity_always(s, message, dirty) ==
  IF ~component.input THEN [s EXCEPT !.result = "true"]
  ELSE LET s1 == setCustomValidity([s EXCEPT !.checks = @ + 1], message, dirty)
       IN IF s1.raised THEN s1
          ELSE [s1 EXCEPT !.result = IF ~Falsy(message) THEN "false" ELSE "true"]

(* checkValidity(data, dirty); message is what Validator.check returns. *)
checkValidity(s, message, dirty) ==
  IF ~component.input \/ (~dirty /\ s.pristine) THEN [s EXCEPT !.result = "true"]
  ELSE LET s1 == setCustomValidity([s EXCEPT !.checks = @ + 1], message, dirty)
       IN IF s1.raised THEN s1
          ELSE [s1 EXCEPT !.result = IF ~Falsy(message) THEN "false" ELSE "true"]


(***************************************************************************)
(* The external library loader: BaseComponent.externalLibraries and        *)
(* BaseComponent.requireLibrary.  A promise is an index into futures.      *)
(***************************************************************************)
Names == {"signaturepad", "maps"}
Properties == {"SignaturePad", "google.maps"}

(* The src argument: one item or an array of items, an item being a URL *)
(* string or an object {type, src}.                                      *)
Item(type, src) == [type |-> type, src |-> src]
SrcArgs ==
  {[isArray |-> FALSE, items |-> <<Item("string", "lib.js")>>],
   [isArray |-> TRUE, items |-> <<Item("script", "lib.js"), Item("styles", "lib.css")>>]}

CallbackOf(name) == name \o "Callback"

NoEntry == [own |-> FALSE, ready |-> 0]

(* resolve or reject of a promise: only a pending promise settles. *)
Settle(fs, id, state) == IF fs[id] = "pending" THEN [fs EXCEPT ![id] = state] ELSE fs

(* The element document.createElement makes for one item of src. *)
ElementFor(item) ==
  LET lib == IF item.type = "string" THEN Item("script", item.src) ELSE item
  IN IF lib.type = "script" THEN [tag |-> "script", url |-> lib.src]
     ELSE [tag |-> "link", url |-> lib.src]

(* The state of the loader as one record, and requireLibrary on it: ret *)
(* is the promise returned, injected whether elements were appended.     *)
Loader ==
  [externalLibraries |-> externalLibraries, futures |-> futures, window |-> window,
   head |-> head, pollers |-> pollers, ret |-> 0, injected |-> FALSE, found |-> FALSE]

(* requireLibrary creating a promise and injecting on every call. *)
requireLibrary_always(s, name, property, src, polling) ==
  LET id == Len(s.futures) + 1
  IN [s EXCEPT !.externalLibraries[name] = [own |-> TRUE, ready |-> id],
               !.futures = Append(@, "pending"),
               !.head = @ \o [i \in 1..Len(src.items) |-> ElementFor(src.items[i])],
               !.injected = TRUE,
               !.ret = id]

requireLibrary(s, name, property, src, polling) ==
  IF ~s.externalLibraries[name].own
  THEN LET id == Len(s.futures) + 1
           s1 == [s EXCEPT !.externalLibraries[name] = [own |-> TRUE, ready |-> id],
                           !.futures = Append(@, "pending")]
           s2 == IF ~polling /\ CallbackOf(name) \notin s1.window
                 THEN [s1 EXCEPT !.window = @ \cup {CallbackOf(name)}]
                 ELSE s1
       IN IF property \in s2.window
          THEN [s2 EXCEPT !.futures = Settle(@, id, "resolved"), !.ret = id, !.found = TRUE]
          ELSE LET items == IF src.isArray THEN src.items ELSE <<src.items[1]>>
                   s3 == [s2 EXCEPT !.head = @ \o [i \in 1..Len(items) |-> ElementFor(items[i])],
                                    !.injected = TRUE]
               IN IF polling
                  THEN [s3 EXCEPT !.pollers = @ \cup {[name |-> name, property |-> property]},
                                  !.ret = id]
                  ELSE [s3 EXCEPT !.ret = id]
  ELSE [s EXCEPT !.ret = s.externalLibraries[name].ready]

(* libraryReady registering the name when it was never requested. *)
libraryReady_registers(s, name) ==
  IF s.externalLibraries[name].own /\ s.externalLibraries[name].ready # 0
  THEN [s EXCEPT !.ret = s.externalLibraries[name].ready]
  ELSE LET id == Len(s.futures) + 1
       IN [s EXCEPT !.externalLibraries[name] = [own |-> TRUE, ready |-> id],
                    !.futures = Append(@, "pending"),
                    !.ret = id]

(* libraryReady(name): the entry's promise, or Promise.reject(...). *)
libraryReady(s, name) ==
  IF s.externalLibraries[name].own /\ s.externalLibraries[name].ready # 0
  THEN [s EXCEPT !.ret = s.externalLibraries[name].ready]
  ELSE LET id == Len(s.futures) + 1
       IN [s EXCEPT !.futures = Append(@, "rejected"), !.ret = id]

CommitLoader(s) ==
  /\ externalLibraries' = s.externalLibraries
  /\ futures' = s.futures
  /\ window' = s.window
  /\ head' = s.head
  /\ pollers' = s.pollers

NoReadies == [calls |-> 0, name |-> "", ret |-> 0]

NoRequests == [calls |-> 0, returned |-> {}, injections |-> 0, found |-> FALSE]

(* The loader before any request; preset are the globals already defined. *)
InitLibraries(preset) ==
  /\ externalLibraries = [n \in Names |-> NoEntry]
  /\ futures = <<>>
  /\ window = preset
  /\ head = <<>>
  /\ pollers = {}
  /\ requests = [n \in Names |-> NoRequests]
  /\ readies = NoReadies

(***************************************************************************)
(* The inputs of the model: descriptors, options, data and arguments.      *)
(***************************************************************************)
Descriptors ==
  [input : BOOLEAN, multiple : BOOLEAN, defaultValue : {Undefined, Str("d")},
   customDefaultValue : {"none"}, inputMask : BOOLEAN,
   disabled : {FALSE}, hidden : {FALSE}, calculateValue : {"none"}]

OptionSets == [events : BOOLEAN, readOnly : {FALSE}]

(* What the data object may hold for the key when the instance is made. *)
InitialData ==
  {Absent, Str(""), Str("a"), Num("0"), Arr(<<>>), Arr(<<Str("a"), Str("b")>>)}

(* The arguments a host passes to setValue. *)
SetArgs ==
  {Str("a"), Str(""), Num("30"), Null, Undefined,
   Arr(<<Str("b")>>), Arr(<<Str("a"), Null, Str("b")>>)}

(* What a user types into an input. *)
Typed == {"", "a"}

(* The events and callbacks a host registers with on(). *)
Events == {"change"}
Callbacks == {"f", "g"}

(***************************************************************************)
(* The record of the last call, for stating properties of a call: the      *)
(* method, its argument, the data entry before it, an index and a flag.    *)
(***************************************************************************)
Note(op, arg, pre, k, b) ==
  [op |-> op, arg |-> arg, pre |-> pre, k |-> k, b |-> b, upd |-> FALSE, trig |-> FALSE]

(* The calls of updateValue since the last gap of DebounceWait between two *)
(* of them: how many (2 stands for two or more), whether each of them and  *)
(* whether none of them called triggerChange, the value the last one read, *)
(* whether this.value was assigned since without updateValue, the events   *)
(* emitted since the first of them, and the time since the last of them.   *)
NoBurst ==
  [calls |-> 0, each |-> TRUE, none |-> TRUE, read |-> Undefined, stale |-> FALSE,
   guarded |-> FALSE, emits |-> 0, quiet |-> DebounceWait]

(* The previous value is falsy but neither null nor undefined. *)
Falsey(x) == Falsy(x) /\ ~IsNullish(x)

BurstAfter(r, op) ==
  LET new == Len(r.emitted) - Len(emitted)
  IN IF r.upd
     THEN LET b == IF burst.quiet >= DebounceWait THEN NoBurst ELSE burst
          IN [calls |-> IF b.calls >= 1 THEN 2 ELSE 1,
              each |-> b.each /\ r.trig, none |-> b.none /\ ~r.trig,
              read |-> r.ret, stale |-> FALSE,
              guarded |-> op # "build" /\ Falsey(DataGet(Self)) /\ Falsy(DataGet(r)),
              emits |-> b.emits + new, quiet |-> 0]
     ELSE [burst EXCEPT !.emits = @ + new,
                        !.stale = @ \/ (op = "setValue" /\ component.input)]

(* The bounds on what a call may leave behind. *)
Within(r) ==
  /\ r.nextNode <= MaxNodes + 1
  /\ EachCount(DataGet(r)) <= MaxRows
  /\ Len(r.inputs) <= MaxRows
  /\ r.trig => Len(emitted) < MaxEmitted

(* The debounce timer is due: its callback runs before anything later. *)
Due == timer.pending /\ timer.elapsed >= DebounceWait

(* node is in the document and a listener for type is attached to it. *)
Listens(l, type, kind) ==
  /\ l \in domListeners
  /\ l.type = type
  /\ l.func.kind = kind
  /\ l.node \in nodes
  /\ element /\ ~cleared

(***************************************************************************)
(* Initial states: the instance after its constructor.                     *)
(***************************************************************************)
InitInstance ==
  /\ value = Null
  /\ aliased = FALSE
  /\ inputs = <<>>
  /\ element = FALSE
  /\ tbody = FALSE
  /\ cleared = FALSE
  /\ nodes = {}
  /\ disabled = FALSE
  /\ pristine = TRUE
  /\ eventHandlers = <<>>
  /\ domListeners = {}
  /\ eventListeners = <<>>
  /\ hub = [p \in {HubType(e) : e \in Events} \X Callbacks |-> 0]
  /\ offCalls = <<>>
  /\ masks = <<>>
  /\ inputMask = 0
  /\ timer = [pending |-> FALSE, elapsed |-> 0, noValidate |-> FALSE]
  /\ emitted = <<>>
  /\ raised = FALSE
  /\ nextNode = 1
  /\ destroys = 0
  /\ visible = TRUE
  /\ presentation = "initial"
  /\ error = Str("")
  /\ errorElement = NoErrorElement
  /\ classes = {}
  /\ validity = {}
  /\ effects = [checks |-> 0, warnings |-> 0, result |-> "none"]
  /\ last = Note("new", Undefined, Absent, 0, FALSE)
  /\ burst = NoBurst

(* line 13: i18next.initialized = false; no localize() call made yet. *)
InitI18next ==
  /\ i18next = [initialized |-> FALSE, inits |-> 0, state |-> "idle"]
  /\ localizes = <<>>

(* The initial states with the descriptor, options and data drawn from sets. *)
InitOf(descriptors, optionSets, dataSet, observeTime) ==
  /\ InitLibraries({})
  /\ InitI18next
  /\ timed = observeTime
  /\ component \in descriptors
  /\ options \in optionSets
  /\ data \in dataSet
  /\ InitInstance

(***************************************************************************)
(* Actions: the calls of the host, the events of the user, the timer.      *)
(***************************************************************************)
Done(r, note) ==
  /\ Within(r)
  /\ Commit(r)
  /\ last' = [note EXCEPT !.upd = r.upd, !.trig = r.trig]
  /\ burst' = IF timed THEN BurstAfter(r, note.op) ELSE burst
  /\ UNCHANGED <<component, options, timed, lvars, gvars>>

Build ==
  /\ ~Due /\ ~element
  /\ Done(build(Self), Note("build", Undefined, data, 0, FALSE))

(* setValue(val, noUpdate, noValidate) with the arguments drawn from sets. *)
SetValueOf(vals, noValidates) ==
  /\ ~Due
  /\ \E val \in vals, noUpdate \in BOOLEAN, noValidate \in noValidates :
       LET r == setValue(Self, val, noUpdate, noValidate, FALSE)
       IN Done(r, Note("setValue", val, data, Len(inputs), noUpdate))

SetValue == SetValueOf(SetArgs, {FALSE})

GetValue ==
  /\ ~Due
  /\ LET r == getValue(Self)
     IN Done(r, Note("getValue", r.ret, data, 0, FALSE))

UpdateValue ==
  /\ ~Due
  /\ \E noValidate \in BOOLEAN :
       LET r == updateValue(Self, noValidate)
       IN Done(r, Note("updateValue", r.ret, DataGet(Self), 0, noValidate))

(* The user edits input i and its change event is dispatched. *)
UserInput ==
  /\ ~Due /\ element /\ ~cleared
  /\ \E i \in 1..Len(inputs), x \in Typed :
       /\ ~inputs[i].disabled
       /\ inputs[i].value # x
       /\ LET s0 == [Self EXCEPT !.inputs[i].value = x]
              r == IF \E l \in domListeners : /\ l.node = inputs[i].node
                                              /\ Listens(l, "change", "updateValue")
                   THEN updateValue(s0, FALSE) ELSE s0
          IN Done(r, Note("input", Str(x), DataGet(Self), i, FALSE))

AddNote(r) == Note("addValue", Undefined, data, EachCount(DataGet(r)) - 1, FALSE)

RemoveNote(index) ==
  Note("removeValue", Undefined, IF last.op = "addValue" THEN last.pre ELSE data,
       index, last.op = "addValue" /\ last.k = index)

AddValue ==
  /\ ~Due
  /\ LET r == addValue(Self) IN Done(r, AddNote(r))

RemoveValue ==
  /\ ~Due
  /\ \E index \in -1..MaxRows : Done(removeValue(Self, index), RemoveNote(index))

(* The user clicks the add control or the remove control of a row. *)
ClickAdd ==
  /\ ~Due
  /\ \E l \in domListeners :
       /\ Listens(l, "click", "addValue")
       /\ LET r == addValue(Self) IN Done(r, AddNote(r))

ClickRemove ==
  /\ ~Due
  /\ \E l \in domListeners :
       /\ Listens(l, "click", "removeValue")
       /\ Done(removeValue(Self, l.func.index), RemoveNote(l.func.index))

On ==
  /\ ~Due
  /\ Len(eventListeners) < MaxListeners
  /\ \E e \in Events, cb \in Callbacks, internal \in BOOLEAN :
       Done(on(Self, e, cb, internal), Note("on", Str(cb), data, 0, internal))

Destroy ==
  /\ ~Due
  /\ destroys < MaxDestroys
  /\ \E all \in BOOLEAN :
       Done(destroy(Self, all), Note("destroy", Undefined, data, 0, all))

Clear ==
  /\ ~Due
  /\ destroys < MaxDestroys
  /\ Done(clear(Self), Note("clear", Undefined, data, 0, FALSE))

(* Time passes, as long as the debounce timer is not due. *)
Tick ==
  /\ timed /\ ~Due
  /\ timer.pending \/ burst.quiet < DebounceWait
  /\ timer' = IF timer.pending THEN [timer EXCEPT !.elapsed = @ + TickMs] ELSE timer
  /\ burst' = [burst EXCEPT !.quiet = IF @ < DebounceWait THEN @ + TickMs ELSE @]
  /\ UNCHANGED <<component, options, data, value, aliased, inputs, element, tbody,
                 cleared, nodes, disabled, pristine, eventHandlers, domListeners,
                 eventListeners, hub, offCalls, masks, inputMask, emitted, raised,
                 nextNode, destroys, last, timed, lvars, gvars, visible, presentation,
                 error, errorElement, classes, validity, effects>>

(* The trailing edge of the debounce: onChange with the last arguments. *)
TimerFire ==
  /\ Due
  /\ LET s0 == [Self EXCEPT !.timer = [pending |-> FALSE, elapsed |-> 0, noValidate |-> FALSE]]
     IN Done(onChange(s0, timer.noValidate),
             Note("onChange", value, data, 0, timer.noValidate))

vars == <<component, options, data, value, aliased, inputs, element, tbody, cleared,
          nodes, disabled, pristine, eventHandlers, domListeners, eventListeners, hub,
          offCalls, masks, inputMask, timer, emitted, raised, nextNode, destroys, last,
          burst, timed, externalLibraries, futures, window, head, pollers, requests,
          readies, visible, presentation, error, errorElement, classes, validity,
          effects, i18next, localizes>>

(***************************************************************************)
(* Spec: values.  Building, setting and reading values, editing inputs and *)
(* adding and removing rows, for every descriptor of ValueDescriptors.     *)
(***************************************************************************)
ValueDescriptors ==
  {d \in Descriptors : ~d.inputMask}

Init == InitOf(ValueDescriptors, {o \in OptionSets : o.events}, InitialData, FALSE)

Next ==
  \/ Build
  \/ SetValue
  \/ GetValue
  \/ UserInput
  \/ AddValue
  \/ RemoveValue
  \/ ClickAdd
  \/ ClickRemove

Spec == Init /\ [][Next]_vars

(***************************************************************************)
(* Properties of values and rows, checked under Spec.                      *)
(***************************************************************************)

(* What an input displays after v was written to it through setValueAt. *)
Displayed(v) == DomValue(IF IsNullish(v) THEN defaultValue.val ELSE v)

(* The state follows a setValue(val, ...) call on a built component. *)
AfterSetValue == last.op = "setValue" /\ element /\ ~raised

(* C1 as stated: on a built, input-bound component with multiple=false,    *)
(* right after setValue(v) a getValue() returns exactly v, for every v,     *)
(* null and undefined included.                                             *)
C1_RoundTripAnyValue ==
  (AfterSetValue /\ component.input /\ ~component.multiple)
    => getValue(Self).ret = last.arg

(* C1, amended: on a built, input-bound component with multiple=false,     *)
(* right after setValue(v) with v not an array, getValue() returns the      *)
(* string the input displays: the string form of v (v itself when v is a    *)
(* string), and the string form of the default value when v is null or      *)
(* undefined.                                                               *)
C1_RoundTripString ==
  (AfterSetValue /\ component.input /\ ~component.multiple /\ ~IsArray(last.arg))
    => /\ getValue(Self).ret = Str(Displayed(last.arg))
       /\ last.arg.t = "string" => getValue(Self).ret = last.arg

C1_Witness ==
  /\ AfterSetValue /\ component.input /\ ~component.multiple
  /\ last.arg = Null
  /\ component.defaultValue = Str("d")
  /\ getValue(Self).ret = Str("d")

(* The smaller of two numbers. *)
Min(a, b) == IF a < b THEN a ELSE b

(* C2 as stated: on a built component with multiple=true, after            *)
(* setValue(seq) with seq of length n, getValue() returns a sequence of     *)
(* length >= min(n, rows) whose first n entries equal the entries of seq,   *)
(* whatever the relation of n and the row count.                            *)
C2_FirstEntriesEqual ==
  (AfterSetValue /\ component.multiple /\ IsArray(last.arg))
    => LET g == getValue(Self).ret
           n == Len(last.arg.a)
       IN /\ IsArray(g)
          /\ Len(g.a) >= Min(n, Len(inputs))
          /\ \A i \in 1..n : i <= Len(g.a) /\ g.a[i] = last.arg.a[i]

(* C2, amended: on a built, input-bound component with multiple=true,      *)
(* after setValue(seq) getValue() returns one entry per row; entry i is the *)
(* string form of seq[i] for a row i below the length of seq (of the        *)
(* default value when seq[i] is null or undefined) and the string form of   *)
(* the default value for every row beyond it.                               *)
C2_RowForRow ==
  (AfterSetValue /\ component.multiple /\ component.input /\ IsArray(last.arg))
    => LET g == getValue(Self).ret
       IN /\ IsArray(g)
          /\ Len(g.a) = Len(inputs)
          /\ \A i \in 1..Len(inputs) : g.a[i] = Str(Displayed(Index(last.arg, i)))

C2_Witness ==
  /\ AfterSetValue /\ component.multiple /\ component.input
  /\ last.arg = Arr(<<Str("b")>>)
  /\ Len(inputs) = 2
  /\ getValue(Self).ret = Arr(<<Str("b"), Str(Displayed(Undefined))>>)

(* The state follows addValue() and then removeValue(k), k the index of    *)
(* the row addValue added.                                                  *)
AfterAddRemove == last.op = "removeValue" /\ last.b /\ component.multiple

(* C8 as stated: addValue() and then removeValue(k) leave the entry of the *)
(* data object as it was before addValue, for every prior state of it.      *)
C8_RestoresAnyEntry == AfterAddRemove => data = last.pre

(* C8, amended: addValue() and then removeValue(k) leave the entry as it   *)
(* was before addValue whenever the entry was a sequence before addValue;   *)
(* an entry that was absent or falsy is left as the empty sequence, and a   *)
(* truthy entry v that was not a sequence as the sequence of v alone.       *)
C8_RestoresSequence ==
  AfterAddRemove =>
    data = (IF IsArray(last.pre) THEN last.pre
            ELSE IF last.pre = Absent \/ Falsy(last.pre) THEN Arr(<<>>)
            ELSE Arr(<<last.pre>>))

C8_Witness ==
  /\ AfterAddRemove /\ element /\ ~raised
  /\ IsArray(last.pre) /\ Len(last.pre.a) = 1
  /\ data = last.pre

(* The state follows build(), addValue() or removeValue(i) on a built      *)
(* component with multiple=true whose entry is a sequence.                  *)
AfterRowCall ==
  /\ component.multiple /\ element /\ ~raised
  /\ last.op \in {"build", "addValue", "removeValue"}
  /\ IsArray(data)

(* Row i displays element i of the entry. *)
RowsDisplay == \A i \in 1..Min(Len(inputs), Len(data.a)) : inputs[i].value = Displayed(data.a[i])

(* build() found the entry absent or empty and seeded one default value. *)
Seeded ==
  (last.op = "build" /\ component.multiple /\ ~raised
     /\ (last.pre = Absent \/ Falsy(last.pre) \/ last.pre = Arr(<<>>)))
    => IsArray(data) /\ Len(data.a) = 1 /\ data.a[1] = defaultValue.val

(* C9 as stated: on a component with multiple=true, after build() and any  *)
(* addValue() and removeValue(i) calls there is one row input per element   *)
(* of the entry and row i displays element i; build() on an absent or empty *)
(* entry seeds exactly one default value.                                   *)
C9_RowsReflectData ==
  /\ AfterRowCall => Len(inputs) = Len(data.a) /\ RowsDisplay
  /\ Seeded

(* C9, amended: there is one row input per element of the entry, and on an *)
(* input-bound component row i displays the string form of element i (of    *)
(* the default value for a null or undefined element); build() on an absent *)
(* or empty entry seeds exactly one default value.                          *)
C9_RowsReflectInputBound ==
  /\ AfterRowCall => /\ Len(inputs) = Len(data.a)
                     /\ component.input => RowsDisplay
  /\ Seeded

C9_Witness ==
  /\ AfterRowCall /\ component.input
  /\ last.op = "removeValue" /\ last.k = 0
  /\ last.pre = Arr(<<Str("a"), Str("b")>>)
  /\ data = Arr(<<Str("b")>>)
  /\ Len(inputs) = 1 /\ inputs[1].value = "b"

(***************************************************************************)
(* SpecChange: change notification.  Edits and updateValue and setValue    *)
(* calls on a built component, the passing of time, the debounce timer.    *)
(***************************************************************************)
ChangeDescriptors ==
  {d \in Descriptors : ~d.inputMask /\ ~d.multiple /\ d.defaultValue = Undefined}

ChangeData == {Absent, Str(""), Str("a"), Num("0"), Bool("false")}

InitChange == InitOf(ChangeDescriptors, OptionSets, ChangeData, TRUE)

SetValueChange == SetValueOf({Str("a"), Str("")}, BOOLEAN)

NextChange ==
  \/ Build
  \/ SetValueChange
  \/ UpdateValue
  \/ UserInput
  \/ Tick
  \/ TimerFire

SpecChange == InitChange /\ [][NextChange]_vars

(***************************************************************************)
(* Properties of change notification, checked under SpecChange.            *)
(***************************************************************************)

(* A gap of DebounceWait has followed the last updateValue call and the *)
(* debounce timer is not waiting: the window of the calls has closed.    *)
BurstClosed == burst.calls >= 1 /\ burst.quiet >= DebounceWait /\ ~timer.pending

LastEmitted == emitted[Len(emitted)]

(* C3 as stated: N >= 1 updateValue() calls with no gap of 200 ms between  *)
(* consecutive ones give exactly one componentChange, after the window      *)
(* closes, carrying the value the last of the calls read.                   *)
C3_ExactlyOnePerBurst ==
  (BurstClosed /\ element /\ component.input /\ options.events)
    => burst.emits = 1 /\ LastEmitted.value = burst.read

(* C3, amended: when an event hub exists and each of the N calls found a   *)
(* change to notify (it called triggerChange), exactly one componentChange  *)
(* is emitted, none of it before the window closes, and it carries the      *)
(* cached value, which on an input-bound component is the value the last    *)
(* call read unless a setValue without update replaced it since; when none  *)
(* of the calls found a change to notify, or there is no event hub, no      *)
(* componentChange is emitted.                                              *)
C3_OnePerNotifiedBurst ==
  /\ (BurstClosed /\ burst.each /\ options.events)
       => /\ burst.emits = 1
          /\ LastEmitted.event = "componentChange"
          /\ (component.input /\ ~burst.stale) => LastEmitted.value = burst.read
  /\ (burst.calls >= 1 /\ burst.each /\ burst.quiet < DebounceWait) => burst.emits = 0
  /\ (BurstClosed /\ (burst.none \/ ~options.events)) => burst.emits = 0

C3_Witness ==
  /\ BurstClosed /\ burst.calls = 2 /\ burst.each /\ options.events
  /\ component.input /\ element
  /\ burst.emits = 1 /\ LastEmitted.value = burst.read

(* C4: when updateValue() runs with a previous entry that is falsy but     *)
(* neither null nor undefined and reads a falsy value, it does not call     *)
(* triggerChange, and no componentChange is emitted for the call: previous  *)
(* "" and new "" included.                                                  *)
C4_FalsyGuard ==
  /\ (last.upd /\ last.op \in {"updateValue", "input", "setValue"}
        /\ Falsey(last.pre) /\ Falsy(DataGet(Self)))
       => ~last.trig
  /\ (burst.calls = 1 /\ burst.guarded) => burst.emits = 0 /\ ~timer.pending

C4_Witness ==
  /\ last.op = "input" /\ last.upd /\ element
  /\ last.pre = Num("0") /\ data = Str("")
  /\ burst.calls = 1 /\ burst.guarded /\ BurstClosed

(***************************************************************************)
(* SpecTeardown: listeners and teardown.  Registering hub listeners,       *)
(* building, rebuilding rows, destroy and clear, and the user's events on  *)
(* what is still rendered.                                                 *)
(***************************************************************************)
TeardownDescriptors ==
  {d \in Descriptors : d.input /\ d.defaultValue = Undefined}

InitTeardown == InitOf(TeardownDescriptors, OptionSets, {Absent, Arr(<<Str("a")>>)}, FALSE)

NextTeardown ==
  \/ Build
  \/ On
  \/ AddValue
  \/ ClickAdd
  \/ UserInput
  \/ Destroy
  \/ Clear

SpecTeardown == InitTeardown /\ [][NextTeardown]_vars

(* The state follows a destroy() or clear() call. *)
AfterDestroy == last.op \in {"destroy", "clear"}

(* C5 as stated: destroy() or clear() called any number of times never     *)
(* raises, and each hub listener and each input mask is released at most    *)
(* once in total: a later call makes no events.off call for a record an     *)
(* earlier call already deregistered.                                       *)
C5_ReleasedAtMostOnce ==
  /\ AfterDestroy => ~raised
  /\ \A i \in 1..Len(offCalls) : offCalls[i] <= 1
  /\ \A m \in 1..Len(masks) : masks[m].destroyCalls <= 1

(* C6 as stated: after destroy() none of the raw listeners recorded in     *)
(* eventHandlers is still attached to a node.                               *)
C6_RawListenersDetached ==
  AfterDestroy =>
    \A i \in 1..Len(eventHandlers) :
      \A l \in domListeners : l.func # eventHandlers[i].func

(* The records of eventListeners for hub entry tc that are still           *)
(* subscribed (no events.off call was made for them) and that a             *)
(* destroy(all) is to deregister.                                           *)
ToDeregister(tc, all) ==
  {i \in 1..Len(eventListeners) :
     /\ <<eventListeners[i].type, eventListeners[i].listener>> = tc
     /\ offCalls[i] = 0
     /\ all \/ eventListeners[i].internal}

(* C7 as stated: a destroy() without all takes from the hub exactly the    *)
(* listeners registered with internal=true and leaves those registered      *)
(* with internal falsy subscribed; destroy(true) takes every listener       *)
(* registered through on().                                                 *)
C7_DeregistersExactly ==
  [][destroys' = destroys + 1
       => \A tc \in DOMAIN hub :
            hub'[tc] = hub[tc] - Cardinality(ToDeregister(tc, last'.b))]_vars

(***************************************************************************)
(* SpecLibrary: the external library loader.  Requests from any instance,  *)
(* the library's global appearing, its callback being called, the polling. *)
(***************************************************************************)
RequireLibrary ==
  \E name \in Names, property \in Properties, src \in SrcArgs, polling \in BOOLEAN :
    /\ requests[name].calls < MaxRequires
    /\ LET r == requireLibrary(Loader, name, property, src, polling)
       IN /\ CommitLoader(r)
          /\ requests' = [requests EXCEPT ![name] =
               [calls |-> @.calls + 1,
                returned |-> @.returned \cup {r.ret},
                injections |-> @.injections + (IF r.injected THEN 1 ELSE 0),
                found |-> @.found \/ r.found]]
    /\ UNCHANGED <<component, options, ivars, gvars, last, burst, timed, readies>>

(* A script that was loaded, or the page itself, defines a global. *)
GlobalAppears ==
  \E property \in Properties :
    /\ property \notin window
    /\ window' = window \cup {property}
    /\ UNCHANGED <<component, options, ivars, gvars, last, burst, timed,
                   externalLibraries, futures, head, pollers, requests, readies>>

(* The loaded library calls window[name + 'Callback'], bound to the entry. *)
CallbackCalled ==
  \E name \in Names :
    /\ CallbackOf(name) \in window
    /\ futures' = Settle(futures, externalLibraries[name].ready, "resolved")
    /\ UNCHANGED <<component, options, ivars, gvars, last, burst, timed,
                   externalLibraries, window, head, pollers, requests, readies>>

(* checkLibrary, 200 ms after it was scheduled. *)
CheckLibrary ==
  \E p \in pollers :
    /\ IF p.property \in window
       THEN /\ futures' = Settle(futures, externalLibraries[p.name].ready, "resolved")
            /\ pollers' = pollers \ {p}
       ELSE UNCHANGED <<futures, pollers>>
    /\ UNCHANGED <<component, options, ivars, gvars, last, burst, timed,
                   externalLibraries, window, head, requests, readies>>

InitLibrary ==
  /\ component \in {d \in Descriptors : d.input /\ ~d.multiple /\ ~d.inputMask
                                        /\ d.defaultValue = Undefined}
  /\ options \in {o \in OptionSets : o.events}
  /\ data = Absent
  /\ timed = FALSE
  /\ InitInstance
  /\ InitI18next
  /\ \E preset \in SUBSET Properties : InitLibraries(preset)

NextLibrary ==
  \/ RequireLibrary
  \/ GlobalAppears
  \/ CallbackCalled
  \/ CheckLibrary

SpecLibrary == InitLibrary /\ [][NextLibrary]_vars

(* The library was requested at least once. *)
Requested(n) == requests[n].calls >= 1

(* C10 as stated: for any number of requireLibrary calls with one name,    *)
(* in any interleaving with the load completing, every call returns the     *)
(* same promise and the resources are injected exactly once in total.       *)
C10_InjectedExactlyOnce ==
  \A n \in Names :
    Requested(n) => Cardinality(requests[n].returned) = 1 /\ requests[n].injections = 1

(* C10, amended: every call returns the same promise, and the resources    *)
(* are injected at most once in total: once when the library's global       *)
(* property was not defined at the first request, and not at all when it    *)
(* was (the promise is then resolved at once).                              *)
C10_InjectedAtMostOnce ==
  \A n \in Names :
    Requested(n) =>
      /\ requests[n].returned = {externalLibraries[n].ready}
      /\ requests[n].injections = (IF requests[n].found THEN 0 ELSE 1)
      /\ requests[n].found => futures[externalLibraries[n].ready] = "resolved"

C10_Witness ==
  \E n \in Names :
    /\ requests[n].calls = MaxRequires
    /\ requests[n].injections = 1
    /\ Len(head) >= 1
    /\ futures[externalLibraries[n].ready] = "resolved"

(***************************************************************************)
(* SpecReady: the loader with libraryReady calls between the requests.     *)
(***************************************************************************)
LibraryReady ==
  \E name \in Names :
    /\ readies.calls < MaxReadies
    /\ LET r == libraryReady(Loader, name)
       IN /\ CommitLoader(r)
          /\ readies' = [calls |-> readies.calls + 1, name |-> name, ret |-> r.ret]
    /\ UNCHANGED <<component, options, ivars, gvars, last, burst, timed, requests>>

NextReady ==
  \/ NextLibrary
  \/ LibraryReady

SpecReady == InitLibrary /\ [][NextReady]_vars

(* C12: libraryReady(name) returns the promise requireLibrary created for  *)
(* the name when the name was requested before, and a rejected promise that *)
(* belongs to no entry otherwise; it changes neither the registry nor the   *)
(* document nor the globals, and settles no promise that existed.           *)
C12_ReadyOrRejected ==
  [][readies'.calls = readies.calls + 1 =>
       LET n == readies'.name
       IN /\ externalLibraries' = externalLibraries
          /\ head' = head /\ window' = window /\ pollers' = pollers
          /\ IF Requested(n)
             THEN /\ readies'.ret = externalLibraries[n].ready
                  /\ requests[n].returned = {readies'.ret}
                  /\ futures' = futures
             ELSE /\ futures' = Append(futures, "rejected")
                  /\ readies'.ret = Len(futures')
                  /\ \A m \in Names : externalLibraries'[m].ready # readies'.ret]_vars

C12_Witness ==
  \E n \in Names :
    /\ readies.calls = 2 /\ readies.name = n
    /\ Requested(n) /\ readies.ret = externalLibraries[n].ready
    /\ \E i \in 1..Len(futures) : futures[i] = "rejected"

(***************************************************************************)
(* SpecUnavailable: the loader when no requested library becomes           *)
(* available: no global appears and no callback is called.  The timeouts   *)
(* of checkLibrary fire, and the calls the callers have to make are made.  *)
(***************************************************************************)
InitUnavailable ==
  /\ component \in {d \in Descriptors : d.input /\ ~d.multiple /\ ~d.inputMask
                                        /\ d.defaultValue = Undefined}
  /\ options \in {o \in OptionSets : o.events}
  /\ data = Absent
  /\ timed = FALSE
  /\ InitInstance
  /\ InitI18next
  /\ InitLibraries({})

NextUnavailable ==
  \/ RequireLibrary
  \/ CheckLibrary
  \/ LibraryReady

SpecUnavailable ==
  InitUnavailable /\ [][NextUnavailable]_vars /\ WF_vars(CheckLibrary)

(* The state of the promise of the entry of a name. *)
ReadyState(n) ==
  IF externalLibraries[n].ready = 0 THEN "none" ELSE futures[externalLibraries[n].ready]

(* C11: when a requested library never becomes available, the promise      *)
(* that requireLibrary and libraryReady return for the name is eventually   *)
(* rejected.                                                                *)
C11_EventuallyRejected ==
  \A n \in Names : Requested(n) ~> (ReadyState(n) = "rejected")

(***************************************************************************)
(* SpecView: visibility and validity.  A host that builds, shows and hides *)
(* and checks validity, a user who edits, the debounce timer that makes    *)
(* the instance no longer pristine.                                        *)
(***************************************************************************)
(* What Validator.check returns: no message, or a message. *)
Messages == {Str(""), Str("required")}

Show ==
  /\ ~Due
  /\ \E flag \in BOOLEAN :
       Done(show(Self, flag), Note("show", Bool(IF flag THEN "true" ELSE "false"), data, 0, flag))

CheckValidity ==
  /\ ~Due
  /\ Len(emitted) < MaxEmitted
  /\ \E message \in Messages, dirty \in BOOLEAN :
       Done(checkValidity(Self, message, dirty), Note("checkValidity", message, data, 0, dirty))

ViewDescriptors ==
  {[d EXCEPT !.hidden = h] :
     d \in {c \in Descriptors : ~c.inputMask /\ ~c.multiple /\ c.defaultValue = Undefined},
     h \in BOOLEAN}

InitView == InitOf(ViewDescriptors, OptionSets, {Absent, Str("a")}, TRUE)

NextView ==
  \/ Build
  \/ Show
  \/ CheckValidity
  \/ UserInput
  \/ Tick
  \/ TimerFire

SpecView == InitView /\ [][NextView]_vars

(* C13: show(false) on a descriptor without hidden sets visible to false   *)
(* and gives the root node the hidden presentation; show(flag) on a         *)
(* descriptor with hidden: true gives the root node the hidden presentation *)
(* for every flag, show(true) included.                                     *)
C13_HiddenWins ==
  (last.op = "show" /\ ~raised) =>
    /\ visible = last.b
    /\ (~last.b /\ ~component.hidden) => (~visible /\ (element => presentation = "hidden"))
    /\ (component.hidden /\ element) => presentation = "hidden"
    /\ (last.b /\ ~component.hidden /\ element) => presentation = "visible"

C13_Witness ==
  /\ last.op = "show" /\ last.b /\ component.hidden
  /\ element /\ visible /\ presentation = "hidden"

(* The step is a checkValidity call (or leaves every variable unchanged): *)
(* the only other step that keeps last is Tick, which moves the clocks.   *)
CheckStep ==
  /\ last'.op = "checkValidity"
  /\ timer' = timer
  /\ burst'.quiet = burst.quiet

(* checkValidity(formData, dirty) returns at once. *)
ShortCircuits(dirty) == ~component.input \/ (~dirty /\ pristine)

(* C14 as stated, on a built instance: a checkValidity(formData, dirty)    *)
(* that is not short-circuited returns false exactly when the validator     *)
(* returns a non-empty message; then the stored error is {component,        *)
(* message} and exactly one componentError is emitted; with an empty        *)
(* message the stored error is cleared and no componentError is emitted.    *)
C14_AppliesMessage ==
  [][(CheckStep /\ element /\ ~ShortCircuits(last'.b)) =>
       /\ ~raised'
       /\ effects'.checks = 1
       /\ effects'.result = (IF Falsy(last'.arg) THEN "true" ELSE "false")
       /\ IF Falsy(last'.arg)
          THEN error' = Null /\ emitted' = emitted
          ELSE /\ error' = ErrorOf(last'.arg)
               /\ emitted' = Append(emitted, [event |-> "componentError",
                                              value |-> ErrorOf(last'.arg),
                                              validate |-> FALSE])]_vars

(* C15: checkValidity(formData, dirty) on a descriptor that is not input-  *)
(* bound, or with dirty falsy on an instance that is still pristine,        *)
(* returns true without a call of the validator, without an event emitted,  *)
(* and with the stored error and the error display unchanged.               *)
C15_ShortCircuit ==
  [][(CheckStep /\ ShortCircuits(last'.b)) =>
       /\ ~raised'
       /\ effects'.result = "true"
       /\ effects'.checks = 0
       /\ emitted' = emitted
       /\ error' = error
       /\ errorElement' = errorElement
       /\ classes' = classes
       /\ validity' = validity]_vars

C15_Witness ==
  /\ last.op = "checkValidity" /\ ~last.b /\ last.arg = Str("")
  /\ component.input /\ pristine /\ element
  /\ effects.result = "true" /\ effects.checks = 0
  /\ error = ErrorOf(Str("required"))
  /\ "has-error" \in classes

(***************************************************************************)
(* The cached value, the data object and the inputs, checked under Spec.   *)
(***************************************************************************)
(* What the rendered inputs display, as getValue reads it. *)
Shown ==
  IF ~component.multiple /\ Len(inputs) > 0
  THEN Str(inputs[1].value)
  ELSE Arr([i \in 1..Len(inputs) |-> Str(inputs[i].value)])

(* The cached value, the entry of the data object and the inputs agree. *)
Agree == data = value /\ value = Shown

(* C16 as stated: after any setValue(value, noUpdate, noValidate) or       *)
(* updateValue() call on an input-bound instance, the cached value, the     *)
(* entry of the data object and what the inputs display agree, noUpdate =   *)
(* true included.                                                           *)
C16_AgreeAfterAnyCall ==
  (component.input /\ ~raised /\ (last.op = "setValue" \/ last.upd)) => Agree

(* C16, amended: after updateValue(), and after setValue with noUpdate     *)
(* falsy, on an input-bound instance, the three agree; after setValue with  *)
(* noUpdate = true the cached value is the argument as passed and the entry *)
(* of the data object is what it was before the call.                       *)
C16_AgreeAfterUpdate ==
  /\ (component.input /\ ~raised /\ last.upd) => Agree
  /\ (component.input /\ ~raised /\ last.op = "setValue" /\ ~last.b) => last.upd
  /\ (component.input /\ ~raised /\ last.op = "setValue" /\ last.b)
       => ~last.upd /\ value = last.arg /\ data = last.pre

C16_Witness ==
  /\ last.op = "setValue" /\ ~last.b /\ last.upd /\ last.arg = Num("30")
  /\ component.input /\ ~component.multiple /\ element
  /\ value = Str("30") /\ data = Str("30") /\ inputs[1].value = "30"

(***************************************************************************)
(* SpecShape: the shape of the entry.  The instance is made over an entry  *)
(* of the shape of its descriptor; rows are added and removed on a         *)
(* descriptor with multiple = true.                                        *)
(***************************************************************************)
(* The entry is absent, or a sequence exactly when multiple is true. *)
Canonical == data = Absent \/ (IsArray(data) <=> component.multiple)

AddRow == component.multiple /\ AddValue

RemoveRow == component.multiple /\ RemoveValue

InitShape ==
  /\ InitOf({d \in ValueDescriptors : d.input}, {o \in OptionSets : o.events},
            InitialData, FALSE)
  /\ Canonical

NextShape ==
  \/ Build
  \/ SetValue
  \/ UpdateValue
  \/ UserInput
  \/ AddRow
  \/ RemoveRow

SpecShape == InitShape /\ [][NextShape]_vars

(* C17 as stated: in every state reached through construction, build,      *)
(* setValue, updateValue, addValue and removeValue, value operations before *)
(* build included, the entry of the data object, when present, is a         *)
(* sequence if multiple is true and a scalar if multiple is false.          *)
C17_CanonicalEntry == Canonical

(***************************************************************************)
(* SpecExpressions: default-value and calculated-value expressions of      *)
(* every kind, failing ones included, on a host that builds, reads the     *)
(* default value and calculates.                                           *)
(***************************************************************************)
(* What a calculated-value expression evaluates to: the initial value [] *)
(* of the string path, a string, null.                                    *)
CalcValues == {Arr(<<>>), Str("c"), Null}

ReadDefault ==
  /\ ~Due
  /\ Done(readDefault(Self), Note("defaultValue", Undefined, data, 0, FALSE))

CalculateValue ==
  /\ ~Due
  /\ \E val \in CalcValues :
       Done(calculateValue(Self, val), Note("calculateValue", val, data, 0, FALSE))

ExpressionDescriptors ==
  {[d EXCEPT !.customDefaultValue = c, !.calculateValue = v] :
     d \in {x \in Descriptors : x.input /\ ~x.inputMask /\ x.defaultValue = Undefined},
     c \in Expressions, v \in Expressions}

InitExpressions ==
  InitOf(ExpressionDescriptors, {o \in OptionSets : o.events}, {Absent, Str("a")}, FALSE)

NextExpressions ==
  \/ Build
  \/ ReadDefault
  \/ CalculateValue
  \/ UserInput

SpecExpressions == InitExpressions /\ [][NextExpressions]_vars

(* C18 as stated: a failing default-value or calculated-value expression,  *)
(* string or logic-tree, never raises to the caller: the read of the        *)
(* default value yields null, calculateValue() leaves the value, the inputs *)
(* and the data object unchanged, and the only other effect is a warning.   *)
C18_FailureNeverRaises ==
  [][/\ (last'.op = "defaultValue" /\ Fails(component.customDefaultValue))
          => /\ ~raised'
             /\ effects'.result = "null"
             /\ effects'.warnings = 1
             /\ value' = value /\ inputs' = inputs /\ data' = data
     /\ (last'.op = "calculateValue" /\ Fails(component.calculateValue))
          => /\ ~raised'
             /\ effects'.warnings = 1
             /\ value' = value /\ inputs' = inputs /\ data' = data
             /\ emitted' = emitted /\ timer' = timer]_vars

(***************************************************************************)
(* SpecLocalize: localize() calls from the component instances and the     *)
(* callback of i18next.init, with or without an error.                     *)
(***************************************************************************)
Instances == {1, 2}

(* localize() called on instance by: the promise it returns is recorded  *)
(* with its state at the return, the state of the service at the call and *)
(* its state now.                                                         *)
localize(g, by) ==
  IF g.i18next.initialized
  THEN [g EXCEPT !.localizes = Append(@, [by |-> by, returned |-> "resolved",
                                          during |-> g.i18next.state,
                                          status |-> "resolved"])]
  ELSE [g EXCEPT !.i18next = [initialized |-> TRUE, inits |-> @.inits + 1,
                              state |-> "loading"],
                 !.localizes = Append(@, [by |-> by, returned |-> "pending",
                                          during |-> g.i18next.state,
                                          status |-> "pending"])]

(* The callback of i18next.init: resolve(i18next), or reject(err). *)
initCallback(g, err) ==
  [g EXCEPT !.i18next.state = IF err THEN "failed" ELSE "ready",
            !.localizes = [i \in 1..Len(@) |->
                             IF @[i].status = "pending"
                             THEN [@[i] EXCEPT !.status = IF err THEN "rejected" ELSE "resolved"]
                             ELSE @[i]]]

Localize ==
  /\ Len(localizes) < MaxLocalizes
  /\ \E by \in Instances :
       LET g == localize([i18next |-> i18next, localizes |-> localizes], by)
       IN i18next' = g.i18next /\ localizes' = g.localizes
  /\ UNCHANGED <<component, options, ivars, lvars, last, burst, timed>>

InitCallback ==
  /\ i18next.state = "loading"
  /\ \E err \in BOOLEAN :
       LET g == initCallback([i18next |-> i18next, localizes |-> localizes], err)
       IN i18next' = g.i18next /\ localizes' = g.localizes
  /\ UNCHANGED <<component, options, ivars, lvars, last, burst, timed>>

InitLocalize ==
  InitOf({d \in ViewDescriptors : d.input}, OptionSets, {Absent}, FALSE)

NextLocalize ==
  \/ Localize
  \/ InitCallback

SpecLocalize == InitLocalize /\ [][NextLocalize]_vars

(* C19 as stated: for any interleaving of localize() calls, i18next.init   *)
(* is called at most once, and a localize() call returns an already        *)
(* resolved promise only when that initialization has completed             *)
(* successfully: not while it is in flight, and not after it failed.        *)
C19_ReadyOnlyWhenInitialized ==
  /\ i18next.inits <= 1
  /\ \A i \in 1..Len(localizes) :
       localizes[i].returned = "resolved" => localizes[i].during = "ready"

(***************************************************************************)
(* The firing of the debounced change, checked under SpecChange.           *)
(***************************************************************************)
(* C20: each time the debounced change fires, onChange sets pristine to    *)
(* false unless the call that fires suppressed validation (noValidate),     *)
(* and then leaves it; with an event hub it emits exactly one               *)
(* componentChange with the cached value at that time and validate = not    *)
(* noValidate, without one it emits nothing; and no step of any operation   *)
(* sets pristine back to true.                                              *)
C20_OnChangeEffect ==
  [][/\ Due => /\ pristine' = (pristine /\ timer.noValidate)
               /\ ~raised'
               /\ value' = value
               /\ IF options.events
                  THEN emitted' = Append(emitted, [event |-> "componentChange",
                                                   value |-> value,
                                                   validate |-> ~timer.noValidate])
                  ELSE emitted' = emitted
     /\ pristine' => pristine]_vars

C20_Witness ==
  /\ last.op = "onChange" /\ last.b
  /\ pristine /\ options.events
  /\ Len(emitted) = 1
  /\ LastEmitted = [event |-> "componentChange", value |-> value, validate |-> FALSE]

(***************************************************************************)
(* SpecProgram: a host that only calls: build, setValue, calculateValue,   *)
(* and the debounce timer.  No user event ever occurs.                     *)
(***************************************************************************)
ProgramDescriptors ==
  {[d EXCEPT !.calculateValue = v] :
     d \in {x \in Descriptors : x.input /\ ~x.multiple /\ ~x.inputMask},
     v \in {"none", "string"}}

InitProgram == InitOf(ProgramDescriptors, OptionSets, {Absent, Str("a")}, TRUE)

NextProgram ==
  \/ Build
  \/ SetValueChange
  \/ CalculateValue
  \/ Tick
  \/ TimerFire

SpecProgram == InitProgram /\ [][NextProgram]_vars

(* C21 as stated: with no user interaction on the instance, pristine stays *)
(* true: build() applying a default value, setValue(v) from the host and    *)
(* calculateValue() never make the instance non-pristine.                   *)
C21_PristineWithoutUser == pristine

(***************************************************************************)
(* The rows beyond the end of a sequence, checked under Spec.              *)
(***************************************************************************)
(* setValue(seq) ran on a built, input-bound instance with more rows than *)
(* seq has elements.                                                      *)
AfterShortSequence ==
  /\ AfterSetValue /\ component.input /\ IsArray(last.arg)
  /\ Len(last.arg.a) < Len(inputs)

(* C22 as stated: after setValue with a sequence shorter than the row      *)
(* count, every row i below the length displays element i and every row at  *)
(* or beyond the length displays the whole value.                           *)
C22_OverflowWholeValue ==
  AfterShortSequence =>
    \A i \in 1..Len(inputs) :
      inputs[i].value = (IF i <= Len(last.arg.a)
                         THEN Displayed(last.arg.a[i])
                         ELSE DomValue(last.arg))

(* C22, amended: after setValue with a sequence shorter than the row       *)
(* count, every row i below the length displays element i and every row at  *)
(* or beyond the length displays the default value: value[i] is undefined   *)
(* there, and setValueAt replaces undefined by the default value.           *)
C22_OverflowDefault ==
  AfterShortSequence =>
    \A i \in 1..Len(inputs) :
      inputs[i].value = (IF i <= Len(last.arg.a)
                         THEN Displayed(last.arg.a[i])
                         ELSE DomValue(defaultValue.val))

C22_Witness ==
  /\ AfterShortSequence /\ component.multiple
  /\ last.arg = Arr(<<Str("b")>>) /\ Len(inputs) = 2
  /\ component.defaultValue = Str("d")
  /\ inputs[1].value = "b" /\ inputs[2].value = "d"

(***************************************************************************)
(* SpecPending: teardown while a debounced change is waiting.  The user    *)
(* edits a built instance, the host destroys or clears it, time passes and *)
(* the debounce timer fires.                                               *)
(***************************************************************************)
InitPending ==
  InitOf({d \in ChangeDescriptors : d.input}, OptionSets, {Absent, Str("a")}, TRUE)

NextPending ==
  \/ Build
  \/ UserInput
  \/ Destroy
  \/ Clear
  \/ Tick
  \/ TimerFire

SpecPending == InitPending /\ [][NextPending]_vars

(* C23: destroy() and clear() leave a waiting debounced change alone: the  *)
(* call changes neither the timer, nor the emitted events, nor pristine;    *)
(* and when the timer fires on an instance that was torn down, onChange     *)
(* still emits componentChange (with an event hub) and sets pristine to     *)
(* false unless validation was suppressed.                                  *)
C23_TeardownKeepsPendingChange ==
  [][/\ destroys' # destroys =>
          /\ timer' = timer
          /\ emitted' = emitted
          /\ pristine' = pristine
     /\ (Due /\ destroys >= 1) =>
          /\ pristine' = (pristine /\ timer.noValidate)
          /\ emitted' = IF options.events
                        THEN Append(emitted, [event |-> "componentChange",
                                              value |-> value,
                                              validate |-> ~timer.noValidate])
                        ELSE emitted]_vars

(* The change of a user edit fired after clear(): the edit needs the       *)
(* element in the document, so clear() ran while the change was waiting.    *)
C23_Witness ==
  /\ cleared /\ destroys >= 1
  /\ last.op = "onChange"
  /\ options.events /\ Len(emitted) = 1
  /\ ~pristine

(***************************************************************************)
(* The registry of raw listeners, checked under SpecTeardown.              *)
(***************************************************************************)
(* C24 as stated: the registry of raw listeners (eventHandlers) holds      *)
(* records only for listeners on nodes that are currently rendered: nodes   *)
(* the last rendering created, inside an element that was not cleared.      *)
C24_RegistryHoldsRenderedOnly ==
  \A i \in 1..Len(eventHandlers) :
    /\ eventHandlers[i].func.node \in nodes
    /\ element /\ ~cleared

(***************************************************************************)
(* Adding and removing rows over an absent or scalar entry, under Spec.    *)
(***************************************************************************)
(* addValue() or removeValue(index) ran on a multiple descriptor whose     *)
(* entry of the data object was absent or a scalar.                         *)
AfterRowCallOnScalar ==
  /\ component.multiple
  /\ last.op \in {"addValue", "removeValue"}
  /\ ~IsArray(last.pre)

(* C25 as stated: on a multiple descriptor whose entry is absent or a      *)
(* scalar, neither addValue() nor removeValue(index) raises, and the entry  *)
(* is a sequence afterwards.                                                *)
C25_RowCallsCoerce ==
  AfterRowCallOnScalar => ~raised /\ IsArray(data)

(***************************************************************************)
(* SpecWindow: calls with different noValidate arguments in one debounce   *)
(* window.  The user edits the input (updateValue(), validating) and the    *)
(* host calls setValue("a", noUpdate, true) (not validating) once the      *)
(* instance is built.                                                       *)
(***************************************************************************)
SetValueQuiet == element /\ SetValueOf({Str("a")}, {TRUE})

NextWindow ==
  \/ Build
  \/ UserInput
  \/ SetValueQuiet
  \/ Tick
  \/ TimerFire

SpecWindow == InitChange /\ [][NextWindow]_vars

(* The noValidate argument that the call noted in last passed on to        *)
(* updateValue: the input handler passes none, SetValueQuiet passes true.   *)
CallNoValidate == last.op = "setValue"

(* The step is a Tick: time passed. *)
TimePasses == timer'.elapsed > timer.elapsed \/ burst'.quiet > burst.quiet

(* C26: within one debounce window the one componentChange takes its       *)
(* validate flag and its effect on pristine from the noValidate argument of *)
(* the last triggerChange call only: every call of triggerChange restarts   *)
(* the wait and replaces the kept argument by its own, nothing else changes *)
(* the kept argument, and the firing emits validate = not that argument and *)
(* sets pristine to false only if that argument is falsy.                   *)
C26_LastCallDecides ==
  [][/\ Due =>
          /\ pristine' = (pristine /\ timer.noValidate)
          /\ emitted' = IF options.events
                        THEN Append(emitted, [event |-> "componentChange",
                                              value |-> value,
                                              validate |-> ~timer.noValidate])
                        ELSE emitted
     /\ TimePasses =>
          /\ timer'.pending = timer.pending
          /\ timer'.noValidate = timer.noValidate
     /\ (~Due /\ ~TimePasses) =>
          /\ emitted' = emitted /\ pristine' = pristine
          /\ IF last'.trig
             THEN timer' = [pending |-> TRUE, elapsed |-> 0,
                            noValidate |-> CallNoValidate']
             ELSE timer' = timer]_vars

(* A user edit followed within the window by setValue("a", false, true):   *)
(* two or more calls of updateValue in the window, each of which called     *)
(* triggerChange (on a built instance two setValue("a") in a row cannot    *)
(* both change the entry, so the call before the last is a user edit), one  *)
(* emission, with validate = false, and pristine still true.                *)
C26_Witness ==
  /\ last.op = "onChange" /\ last.b
  /\ burst.calls = 2 /\ burst.each /\ burst.emits = 1
  /\ options.events
  /\ LastEmitted.validate = FALSE
  /\ pristine

(***************************************************************************)
(* SpecDisabled: the disabled flag and the rendered inputs.  The host      *)
(* builds, sets disabled through the accessor, and adds and removes rows,   *)
(* for descriptors and options that are or are not disabled and read-only.  *)
(***************************************************************************)
DisabledDescriptors ==
  {[d EXCEPT !.disabled = b] :
      d \in {x \in Descriptors : x.input /\ ~x.inputMask /\ x.defaultValue = Undefined},
      b \in BOOLEAN}

DisabledOptions == {[o EXCEPT !.readOnly = r] : o \in OptionSets, r \in BOOLEAN}

InitDisabled ==
  InitOf(DisabledDescriptors, DisabledOptions, {Absent, Arr(<<Str("a")>>)}, FALSE)

(* this.disabled = flag, by the host. *)
SetDisabled ==
  /\ ~Due
  /\ \E flag \in BOOLEAN :
       /\ flag # disabled
       /\ Done(setDisabled(Self, flag), Note("disabled", Undefined, data, 0, flag))

NextDisabled ==
  \/ Build
  \/ SetDisabled
  \/ AddValue
  \/ RemoveValue

SpecDisabled == InitDisabled /\ [][NextDisabled]_vars

(* C27 as stated: in every state after build(), if the disabled flag of    *)
(* the instance is true then every rendered input is disabled, the rows     *)
(* that addValue() and removeValue() recreate included.                     *)
C27_DisabledCoversInputs ==
  (element /\ disabled) => \A i \in 1..Len(inputs) : inputs[i].disabled

(***************************************************************************)
(* The default value at build, checked under Spec.                         *)
(***************************************************************************)
(* build() ran on a single-value, input-bound descriptor whose default     *)
(* value is truthy.                                                         *)
AfterBuildWithDefault ==
  /\ last.op = "build" /\ ~raised
  /\ component.input /\ ~component.multiple
  /\ ~Falsy(defaultValue.val)

errors == IF Falsy(error) THEN <<>> ELSE <<error>>

(* C29 as stated: after any checkValidity(formData, dirty) call that       *)
(* returned true the stored error is empty: the errors list is empty.       *)
C29_TrueMeansNoError ==
  (last.op = "checkValidity" /\ ~raised /\ effects.result = "true") => errors = <<>>

====
